---- MODULE Spec2Model ----
(***************************************************************************)
(* A model of the falco VCL toolchain core:                                *)
(*   - the built-in function registry  (interpreter/function/function.go)  *)
(*   - the parser's token window, comment trivia and nesting level,        *)
(*     the top-level dispatch and the operator-precedence table            *)
(*     (parser/parser.go)                                                  *)
(***************************************************************************)
EXTENDS Integers, Sequences, FiniteSets, TLC

VARIABLES
    \* ---- function registry ----
    builtinFunctions,   \* the process-wide map name -> *Function
    before,             \* the registry as it was when the last call started
    lastOp,             \* the last registry call: its arguments and what it returned
    first,              \* for every name ever registered, the descriptor it was first given
    \* ---- parser ----
    input,              \* the lexer's token stream (without the final EOF)
    l,                  \* the lexer: the number of tokens NextToken has handed out
    prevToken,          \* Parser.prevToken
    curToken,           \* Parser.curToken
    peekToken,          \* Parser.peekToken
    level,              \* Parser.level
    pc,                 \* where the caller of the parser is
    built,              \* the metas New and Advance have had the peek refill construct
    trailingOut,        \* the comments returned by the calls of trailing(), in order
    \* ---- ParseVCL ----
    chunks,             \* the pieces the token stream was put together from
    head,               \* the parser as it was at the head of the last loop iteration
    statements,         \* vcl.Statements
    ret                 \* what ParseVCL / parseExpression returned

regVars    == <<builtinFunctions, before, lastOp, first>>
parserVars == <<input, l, prevToken, curToken, peekToken, level, pc, built, trailingOut>>
vclVars    == <<chunks, head, statements, ret>>
vars       == <<builtinFunctions, before, lastOp, first,
                input, l, prevToken, curToken, peekToken, level, pc, built, trailingOut,
                chunks, head, statements, ret>>

-----------------------------------------------------------------------------
(* Bounds of the model *)

\* the scopes Exists is asked about range over 0..MaxScope
MaxScope == 3
\* the scope masks of the injected descriptors range over 1..MaxMask
MaxMask == 2
\* the token streams of the window specification hold at most MaxLen tokens
MaxLen == 4
\* trailing() is called at most MaxTrailing times in a run
MaxTrailing == 2
\* the token streams of the ParseVCL specification are made of at most MaxChunks pieces
MaxChunks == 3

-----------------------------------------------------------------------------
(* Helpers *)

\* the nil pointer
Nil == [type |-> "nil"]

\* the element of a one-element set; The({ e : x \in {v} }) is e with the local
\* variable x assigned v once
The(S) == CHOOSE x \in S : TRUE

\* every ordering of a finite set, as a sequence without repetition
Orders(S) ==
    { s \in [1..Cardinality(S) -> S] : \A i, j \in 1..Cardinality(S) : i # j => s[i] # s[j] }

\* Go's & on non-negative integers
RECURSIVE BitAnd(_, _)
BitAnd(a, b) ==
    IF a = 0 \/ b = 0 THEN 0
    ELSE (IF a % 2 = 1 /\ b % 2 = 1 THEN 1 ELSE 0) + 2 * BitAnd(a \div 2, b \div 2)

-----------------------------------------------------------------------------
(* The function registry: interpreter/function/function.go *)

Names == {"now", "foo", "bar"}

\* type Function struct: the scope mask and the callable (the other fields play no
\* part in Exists and Inject)
Function == [Scope : 1..MaxMask, Call : {"fn"}]

\* the registry after initialization: the built-in "now"
InitialFunctions == [n \in {"now"} |-> [Scope |-> 3, Call |-> "now"]]

\* a lookup that ignores the scope
ExistsAnyScope(scope, name) ==
    IF name \notin DOMAIN builtinFunctions
    THEN [fn |-> Nil, err |-> "NotDefined"]
    ELSE [fn |-> builtinFunctions[name], err |-> "nil"]

\* a lookup that reports every failure as "not defined"
ExistsOneError(scope, name) ==
    IF name \notin DOMAIN builtinFunctions
    THEN [fn |-> Nil, err |-> "NotDefined"]
    ELSE IF BitAnd(builtinFunctions[name].Scope, scope) = 0
         THEN [fn |-> Nil, err |-> "NotDefined"]
         ELSE [fn |-> builtinFunctions[name], err |-> "nil"]

\* func Exists(scope, name) (*Function, error)
Exists(scope, name) ==
    IF name \notin DOMAIN builtinFunctions
    THEN [fn |-> Nil, err |-> "NotDefined"]
    ELSE IF BitAnd(builtinFunctions[name].Scope, scope) = 0
         THEN [fn |-> Nil, err |-> "WrongScope"]
         ELSE [fn |-> builtinFunctions[name], err |-> "nil"]

\* an injection that overwrites what is registered
RECURSIVE InjectOverwrite(_, _, _)
InjectOverwrite(reg, fns, order) ==
    IF order = <<>> THEN [reg |-> reg, err |-> "nil", key |-> ""]
    ELSE LET key == Head(order)
             upd == [k \in DOMAIN reg \cup {key} |-> IF k = key THEN fns[key] ELSE reg[k]]
         IN  InjectOverwrite(upd, fns, Tail(order))

\* func Inject(fns) error: the loop over the map, which Go walks in an order of
\* its own choosing (order); every key met before a collision is stored
RECURSIVE Inject(_, _, _)
Inject(reg, fns, order) ==
    IF order = <<>> THEN [reg |-> reg, err |-> "nil", key |-> ""]
    ELSE LET key == Head(order)
         IN  IF key \in DOMAIN reg
             THEN [reg |-> reg, err |-> "AlreadyDefined", key |-> key]
             ELSE Inject(reg @@ (key :> fns[key]), fns, Tail(order))

\* the maps Inject can be called with
Entries == UNION { [K -> Function] : K \in SUBSET Names \ {{}} }

NoOp == [op |-> "none"]

CallExists ==
    /\ \E scope \in 0..MaxScope, name \in Names :
          LET r == Exists(scope, name)
          IN  lastOp' = [op |-> "Exists", scope |-> scope, name |-> name,
                         fn |-> r.fn, err |-> r.err]
    /\ before' = builtinFunctions
    /\ UNCHANGED <<builtinFunctions, first>>

CallInject ==
    /\ \E fns \in Entries :
          \E order \in Orders(DOMAIN fns) :
             LET r == Inject(builtinFunctions, fns, order)
             IN  /\ builtinFunctions' = r.reg
                 /\ lastOp' = [op |-> "Inject", fns |-> fns, err |-> r.err, key |-> r.key]
                 /\ first' = [k \in DOMAIN first \cup DOMAIN r.reg |->
                                 IF k \in DOMAIN first THEN first[k] ELSE r.reg[k]]
    /\ before' = builtinFunctions

-----------------------------------------------------------------------------
(* The lexer, as the parser sees it: NextToken and PeekToken *)

\* the i-th token of the stream; past the end the lexer answers EOF for ever
Tok(i) ==
    IF i <= Len(input) THEN [type |-> input[i], idx |-> i]
    ELSE [type |-> "EOF", idx |-> Len(input) + 1]

\* l.PeekToken(): the token NextToken would return, without advancing
PeekToken(p) == Tok(p.l + 1)

\* l.NextToken(): the lexer after handing out a token
NextToken(p) == [p EXCEPT !.l = IF p.l < Len(input) THEN p.l + 1 ELSE p.l]

-----------------------------------------------------------------------------
(* The parser's token window: parser/parser.go *)

\* the Parser struct as a value
P == [l |-> l, prevToken |-> prevToken, curToken |-> curToken,
      peekToken |-> peekToken, level |-> level]

\* the Parser struct New() starts from
P0 == [l |-> 0, prevToken |-> Nil, curToken |-> Nil, peekToken |-> Nil, level |-> 0]

\* store a Parser value in the variables
SetP(q) ==
    /\ l' = q.l
    /\ prevToken' = q.prevToken
    /\ curToken' = q.curToken
    /\ peekToken' = q.peekToken
    /\ level' = q.level

\* ast.New(t, level, leading)
NewMeta(t, nest, leading) ==
    [type |-> t.type, idx |-> t.idx, level |-> nest, leading |-> leading]

\* &ast.Comment{Token: t, Value: t.Literal}: the literal of the comment token at
\* place i is modelled by <<i>>
Comment(t) == [tok |-> t.idx, value |-> <<t.idx>>]

\* the level after a token of this type has been read
LevelAfter(type, nest) ==
    CASE type = "LEFT_BRACE" -> nest + 1
      [] type = "RIGHT_BRACE" -> nest - 1
      [] OTHER -> nest

\* a refill that builds the meta before it updates the level
RECURSIVE readPeekStale(_, _)
readPeekStale(p, leading) ==
    LET t == PeekToken(p)
        q == NextToken(p)
    IN  CASE t.type = "LF" -> readPeekStale(q, leading)
          [] t.type = "COMMENT" -> readPeekStale(q, Append(leading, Comment(t)))
          [] OTHER -> [q EXCEPT !.level = LevelAfter(t.type, p.level),
                                !.peekToken = NewMeta(t, p.level, leading)]

\* a refill that skips comments but takes a line end for a token
RECURSIVE readPeekKeepLF(_, _)
readPeekKeepLF(p, leading) ==
    LET t == PeekToken(p)
        q == NextToken(p)
    IN  CASE t.type = "COMMENT" -> readPeekKeepLF(q, Append(leading, Comment(t)))
          [] OTHER -> [q EXCEPT !.level = LevelAfter(t.type, p.level),
                                !.peekToken = NewMeta(t, LevelAfter(t.type, p.level), leading)]

\* func (p *Parser) readPeek(): the loop, with the comments gathered so far
RECURSIVE readPeekLoop(_, _)
readPeekLoop(p, leading) ==
    The({ CASE t.type = "LF" -> readPeekLoop(q, leading)
            [] t.type = "COMMENT" -> readPeekLoop(q, Append(leading, Comment(t)))
            [] OTHER -> [q EXCEPT !.level = LevelAfter(t.type, p.level),
                                  !.peekToken = NewMeta(t, LevelAfter(t.type, p.level),
                                                        leading)]
          : t \in {PeekToken(p)}, q \in {NextToken(p)} })

\* func (p *Parser) readPeek()
readPeek(p) == readPeekLoop(p, <<>>)

\* func (p *Parser) nextToken()
nextToken(p) ==
    The({ readPeek(q) : q \in {[p EXCEPT !.prevToken = p.curToken,
                                         !.curToken = p.peekToken]} })

\* the string p.peekToken.LeadingComment() stands for: the literals of the leading
\* comments, joined
RECURSIVE LeadingComment(_)
LeadingComment(leading) ==
    IF leading = <<>> THEN <<>> ELSE Head(leading).value \o LeadingComment(Tail(leading))

\* a collection of trailing comments that goes on past the line end
RECURSIVE trailingCrossLF(_, _)
trailingCrossLF(p, cs) ==
    LET tok == PeekToken(p)
    IN  CASE tok.type = "LF" -> trailingCrossLF(NextToken(p), cs)
          [] tok.type = "EOF" ->
                IF Len(LeadingComment(p.peekToken.leading)) > 0
                THEN [p |-> p,
                      cs |-> Append(cs, [tok |-> tok.idx,
                                         value |-> LeadingComment(p.peekToken.leading)])]
                ELSE [p |-> p, cs |-> cs]
          [] tok.type = "COMMENT" -> trailingCrossLF(NextToken(p), Append(cs, Comment(tok)))
          [] OTHER -> [p |-> p, cs |-> cs]

\* func (p *Parser) trailing(): the loop, with the comments gathered so far
RECURSIVE trailingLoop(_, _)
trailingLoop(p, cs) ==
    LET tok == PeekToken(p)
    IN  CASE tok.type = "LF" -> [p |-> p, cs |-> cs]
          [] tok.type = "EOF" ->
                IF Len(LeadingComment(p.peekToken.leading)) > 0
                THEN [p |-> p,
                      cs |-> Append(cs, [tok |-> tok.idx,
                                         value |-> LeadingComment(p.peekToken.leading)])]
                ELSE [p |-> p, cs |-> cs]
          [] tok.type = "COMMENT" -> trailingLoop(NextToken(p), Append(cs, Comment(tok)))
          [] OTHER -> [p |-> p, cs |-> cs]

\* func (p *Parser) trailing() ast.Comments
trailing(p) == trailingLoop(p, <<>>)

\* func (p *Parser) curTokenIs(t)
curTokenIs(p, t) == p.curToken.type = t

\* func (p *Parser) peekTokenIs(t)
peekTokenIs(p, t) == p.peekToken.type = t

\* func (p *Parser) expectPeek(t)
expectPeek(p, t) ==
    IF ~peekTokenIs(p, t) THEN [ok |-> FALSE, p |-> p]
    ELSE The({ [ok |-> TRUE, p |-> q] : q \in {nextToken(p)} })

\* func New(l): the two calls of nextToken that fill cur and peek
New ==
    /\ pc = "new"
    /\ \E q1 \in {nextToken(P0)} : \E q2 \in {nextToken(q1)} :
           /\ SetP(q2)
           /\ built' = {q1.peekToken, q2.peekToken}
    /\ pc' = "ready"
    /\ UNCHANGED <<input, trailingOut>>

\* a call of nextToken() by a statement parser
Advance ==
    /\ pc = "ready"
    /\ LET q == nextToken(P)
       IN  /\ SetP(q)
           /\ built' = built \cup {q.peekToken}
    /\ UNCHANGED <<input, pc, trailingOut>>

\* a call of trailing() by a statement parser
Trailing ==
    /\ pc = "ready"
    /\ Len(trailingOut) < MaxTrailing
    /\ LET r == trailing(P)
       IN  /\ SetP(r.p)
           /\ trailingOut' = Append(trailingOut, r.cs)
    /\ UNCHANGED <<input, pc, built>>

-----------------------------------------------------------------------------
(* Errors and nodes *)

\* a nil error
NoErr == [kind |-> "nil"]

\* UnexpectedToken(m), also after errors.WithStack
UnexpectedToken(m) == [kind |-> "UnexpectedToken", tok |-> m]

\* UndefinedPrefix(m)
UndefinedPrefix(m) == [kind |-> "UndefinedPrefix", tok |-> m]

-----------------------------------------------------------------------------
(* The top-level declaration parsers.  Their code is in other files of the     *)
(* parser package; they are modelled from the specification: a declaration    *)
(* parser starts with cur on its keyword and, when it succeeds, leaves cur on *)
(* its terminator, "SEMICOLON" or "RIGHT_BRACE".                                                *)

\* the declarations that end with "SEMICOLON":  KEYWORD operand ;
SimpleOperand == [IMPORT |-> "IDENT", INCLUDE |-> "STRING"]

\* the declarations that end with "RIGHT_BRACE":  KEYWORD IDENT { ... }
BlockKinds == {"ACL", "BACKEND", "DIRECTOR", "TABLE", "SUBROUTINE", "PENALTYBOX", "RATECOUNTER"}

\* the node of a declaration: its kind, its meta (the meta of its first token) and
\* the place of its last token
Node(start, end) == [kind |-> start.type, meta |-> start, last |-> end.idx]

\* import x;  include "x";
parseSimpleDeclaration(p) ==
    The({ IF ~a.ok THEN [p |-> p, stmt |-> Nil, err |-> UnexpectedToken(p.peekToken)]
          ELSE The({ IF ~b.ok
                     THEN [p |-> a.p, stmt |-> Nil, err |-> UnexpectedToken(a.p.peekToken)]
                     ELSE [p |-> b.p, stmt |-> Node(p.curToken, b.p.curToken),
                           err |-> NoErr]
                     : b \in {expectPeek(a.p, "SEMICOLON")} })
          : a \in {expectPeek(p, SimpleOperand[p.curToken.type])} })

\* the body of a block, up to the "RIGHT_BRACE" that closes it; cur is inside the block,
\* depth blocks deep
RECURSIVE parseBlockBody(_, _)
parseBlockBody(p, depth) ==
    The({ CASE q.curToken.type = "EOF" -> [ok |-> FALSE, p |-> q]
            [] q.curToken.type = "LEFT_BRACE" -> parseBlockBody(q, depth + 1)
            [] q.curToken.type = "RIGHT_BRACE" ->
                  IF depth = 1 THEN [ok |-> TRUE, p |-> q] ELSE parseBlockBody(q, depth - 1)
            [] OTHER -> parseBlockBody(q, depth)
          : q \in {nextToken(p)} })

\* acl a { ... }  backend b { ... }  sub s { ... }  and the like
parseBlockDeclaration(p) ==
    The({ IF ~a.ok THEN [p |-> p, stmt |-> Nil, err |-> UnexpectedToken(p.peekToken)]
          ELSE The({ IF ~b.ok
                     THEN [p |-> a.p, stmt |-> Nil, err |-> UnexpectedToken(a.p.peekToken)]
                     ELSE The({ IF ~c.ok
                                THEN [p |-> c.p, stmt |-> Nil,
                                      err |-> UnexpectedToken(c.p.curToken)]
                                ELSE [p |-> c.p, stmt |-> Node(p.curToken, c.p.curToken),
                                      err |-> NoErr]
                                : c \in {parseBlockBody(b.p, 1)} })
                     : b \in {expectPeek(a.p, "LEFT_BRACE")} })
          : a \in {expectPeek(p, "IDENT")} })

-----------------------------------------------------------------------------
(* ParseVCL: parser/parser.go *)

\* the switch of parse(): the declaration parser of the current token's kind
dispatch(p) ==
    CASE p.curToken.type \in DOMAIN SimpleOperand -> parseSimpleDeclaration(p)
      [] p.curToken.type \in BlockKinds -> parseBlockDeclaration(p)
      [] OTHER -> [p |-> p, stmt |-> Nil, err |-> UnexpectedToken(p.curToken)]

\* a parse() that steps over a token it does not know
parseRecover(p) ==
    The({ IF r.err # NoErr /\ r.p = p
          THEN [p |-> nextToken(p), stmt |-> Nil, err |-> NoErr]
          ELSE IF r.err # NoErr THEN [p |-> r.p, stmt |-> Nil, err |-> r.err]
          ELSE [p |-> nextToken(r.p), stmt |-> r.stmt, err |-> NoErr]
          : r \in {dispatch(p)} })

\* a parse() that does not advance past the declaration's terminator
parseNoAdvance(p) ==
    The({ IF r.err # NoErr THEN [p |-> r.p, stmt |-> Nil, err |-> r.err]
          ELSE [p |-> r.p, stmt |-> r.stmt, err |-> NoErr]
          : r \in {dispatch(p)} })

\* a parse() that lets a token it does not know pass without an error
parseIgnoreUnknown(p) ==
    The({ IF r.err # NoErr /\ r.p = p /\ r.err = UnexpectedToken(p.curToken)
          THEN [p |-> p, stmt |-> Nil, err |-> NoErr]
          ELSE IF r.err # NoErr THEN [p |-> r.p, stmt |-> Nil, err |-> r.err]
          ELSE [p |-> nextToken(r.p), stmt |-> r.stmt, err |-> NoErr]
          : r \in {dispatch(p)} })

\* func (p *Parser) parse() (ast.Statement, error)
parse(p) ==
    The({ IF r.err # NoErr THEN [p |-> r.p, stmt |-> Nil, err |-> r.err]
          ELSE [p |-> nextToken(r.p), stmt |-> r.stmt, err |-> NoErr]
          : r \in {dispatch(p)} })

\* func (p *Parser) ParseVCL(): one iteration of the loop
ParseVCLStep ==
    /\ pc = "ready"
    /\ ~curTokenIs(P, "EOF")
    /\ \E r \in {parse(P)} :
           /\ SetP(r.p)
           /\ IF r.err # NoErr
              THEN /\ ret' = [vcl |-> Nil, err |-> r.err]
                   /\ pc' = "done"
                   /\ UNCHANGED statements
              ELSE /\ statements' = IF r.stmt # Nil THEN Append(statements, r.stmt)
                                    ELSE statements
                   /\ UNCHANGED <<ret, pc>>
    /\ head' = P
    /\ UNCHANGED <<input, built, trailingOut, chunks>>

\* func (p *Parser) ParseVCL(): the loop ends and the VCL is returned
ParseVCLReturn ==
    /\ pc = "ready"
    /\ curTokenIs(P, "EOF")
    /\ ret' = [vcl |-> [Statements |-> statements], err |-> NoErr]
    /\ pc' = "done"
    /\ UNCHANGED <<input, l, prevToken, curToken, peekToken, level, built, trailingOut,
                   chunks, head, statements>>

-----------------------------------------------------------------------------
(* The statement parsers.  Their code is in other files of the parser package; *)
(* they are modelled from the specification: a statement parser starts with   *)
(* cur on the statement's first token and, when it succeeds, leaves cur on    *)
(* the statement's last token.                                                *)

\* the statements that are a keyword, operands and ";"
KeywordStatements ==
    {"SET", "UNSET", "REMOVE", "ADD", "CALL", "DECLARE", "ERROR", "ESI", "LOG", "RESTART",
     "RETURN", "SYNTHETIC", "SYNTHETIC_BASE64", "GOTO"}

\* the node of a statement: its kind, its meta and the place of its last token
StmtNode(kind, start, end) == [kind |-> kind, meta |-> start, last |-> end.idx]

\* the operands of a statement, up to the token of type stop; no brace, no ";"
\* and no EOF may come before it
RECURSIVE parseUpTo(_, _)
parseUpTo(p, stop) ==
    CASE peekTokenIs(p, stop) -> The({ [ok |-> TRUE, p |-> q] : q \in {nextToken(p)} })
      [] p.peekToken.type \in {"EOF", "LEFT_BRACE", "RIGHT_BRACE", "SEMICOLON"} ->
            [ok |-> FALSE, p |-> p]
      [] OTHER -> The({ parseUpTo(q, stop) : q \in {nextToken(p)} })

\* set x = y;  restart;  log "x";  f(x);  and the like
parseKeywordStatement(p, kind) ==
    The({ IF ~a.ok THEN [p |-> a.p, stmt |-> Nil, err |-> UnexpectedToken(a.p.peekToken)]
          ELSE [p |-> a.p, stmt |-> StmtNode(kind, p.curToken, a.p.curToken),
                err |-> NoErr]
          : a \in {parseUpTo(p, "SEMICOLON")} })

\* { ... }
parseBlockStatement(p) ==
    The({ IF ~c.ok THEN [p |-> c.p, stmt |-> Nil, err |-> UnexpectedToken(c.p.curToken)]
          ELSE [p |-> c.p, stmt |-> StmtNode("LEFT_BRACE", p.curToken, c.p.curToken),
                err |-> NoErr]
          : c \in {parseBlockBody(p, 1)} })

\* if ( ... ) { ... }
parseIfStatement(p) ==
    The({ IF ~a.ok THEN [p |-> p, stmt |-> Nil, err |-> UnexpectedToken(p.peekToken)]
          ELSE The({ IF ~b.ok
                     THEN [p |-> b.p, stmt |-> Nil, err |-> UnexpectedToken(b.p.peekToken)]
                     ELSE The({ IF ~c.ok
                                THEN [p |-> b.p, stmt |-> Nil,
                                      err |-> UnexpectedToken(b.p.peekToken)]
                                ELSE The({ IF d.err # NoErr THEN d
                                           ELSE [p |-> d.p,
                                                 stmt |-> StmtNode("IF", p.curToken,
                                                                   d.p.curToken),
                                                 err |-> NoErr]
                                           : d \in {parseBlockStatement(c.p)} })
                                : c \in {expectPeek(b.p, "LEFT_BRACE")} })
                     : b \in {parseUpTo(a.p, "RIGHT_PAREN")} })
          : a \in {expectPeek(p, "LEFT_PAREN")} })

\* label:
parseGotoDestination(p) ==
    [p |-> p, stmt |-> StmtNode("GotoDestination", p.curToken, p.curToken), err |-> NoErr]

-----------------------------------------------------------------------------
(* ParseSnippetVCL: parser/parser.go *)

\* the switch of ParseSnippetVCL: the statement parser of the current token's kind
snippetDispatch(p) ==
    CASE p.curToken.type = "LEFT_BRACE" -> parseBlockStatement(p)
      [] p.curToken.type \in KeywordStatements -> parseKeywordStatement(p, p.curToken.type)
      [] p.curToken.type = "IF" -> parseIfStatement(p)
      [] p.curToken.type = "INCLUDE" -> parseSimpleDeclaration(p)
      [] p.curToken.type = "IDENT" ->
            IF peekTokenIs(p, "LEFT_PAREN") THEN parseKeywordStatement(p, "FunctionCall")
            ELSE parseGotoDestination(p)
      [] OTHER -> [p |-> p, stmt |-> Nil, err |-> UnexpectedToken(p.peekToken)]

\* a caller that has built the parser calls ParseSnippetVCL
CallParseSnippetVCL ==
    /\ pc = "ready"
    /\ head = Nil
    /\ pc' = "snippet"
    /\ UNCHANGED <<input, l, prevToken, curToken, peekToken, level, built, trailingOut,
                   chunks, head, statements, ret>>

\* func (p *Parser) ParseSnippetVCL(): one iteration of the loop
ParseSnippetStep ==
    /\ pc = "snippet"
    /\ ~peekTokenIs(P, "EOF")
    /\ \E r \in {snippetDispatch(P)} :
           IF r.err # NoErr
           THEN /\ SetP(r.p)
                /\ ret' = [statements |-> Nil, err |-> r.err]
                /\ pc' = "done"
                /\ UNCHANGED statements
           ELSE /\ \E q \in {nextToken(r.p)} : SetP(q)
                /\ statements' = Append(statements, r.stmt)
                /\ UNCHANGED <<ret, pc>>
    /\ head' = P
    /\ UNCHANGED <<input, built, trailingOut, chunks>>

\* func (p *Parser) ParseSnippetVCL(): the loop ends, the parser steps onto EOF
\* and the statements are returned
ParseSnippetReturn ==
    /\ pc = "snippet"
    /\ peekTokenIs(P, "EOF")
    /\ SetP(nextToken(P))
    /\ ret' = [statements |-> statements, err |-> NoErr]
    /\ pc' = "done"
    /\ UNCHANGED <<input, built, trailingOut, chunks, head, statements>>

-----------------------------------------------------------------------------
(* The operator-precedence table and the expression parser *)

LOWEST == 1
OR == 2
AND == 3
REGEX == 4
EQUALS == 5
LESS_GREATER == 6
CONCAT == 7
PREFIX == 8
CALL == 9

\* a table in which && and || have changed places
precedencesSwapped ==
    [t \in {"EQUAL", "NOT_EQUAL"} |-> EQUALS]
    @@ [t \in {"GREATER_THAN", "GREATER_THAN_EQUAL", "LESS_THAN", "LESS_THAN_EQUAL"}
            |-> LESS_GREATER]
    @@ [t \in {"REGEX_MATCH", "NOT_REGEX_MATCH"} |-> REGEX]
    @@ [t \in {"PLUS", "STRING", "IDENT", "IF"} |-> CONCAT]
    @@ [t \in {"LEFT_PAREN"} |-> CALL]
    @@ [t \in {"AND"} |-> OR]
    @@ [t \in {"OR"} |-> AND]

\* var precedences = map[token.TokenType]int{...}
precedences ==
    [t \in {"EQUAL", "NOT_EQUAL"} |-> EQUALS]
    @@ [t \in {"GREATER_THAN", "GREATER_THAN_EQUAL", "LESS_THAN", "LESS_THAN_EQUAL"}
            |-> LESS_GREATER]
    @@ [t \in {"REGEX_MATCH", "NOT_REGEX_MATCH"} |-> REGEX]
    @@ [t \in {"PLUS", "STRING", "IDENT", "IF"} |-> CONCAT]
    @@ [t \in {"LEFT_PAREN"} |-> CALL]
    @@ [t \in {"AND"} |-> AND]
    @@ [t \in {"OR"} |-> OR]

\* func (p *Parser) curPrecedence() int
curPrecedence(p) ==
    IF p.curToken.type \in DOMAIN precedences THEN precedences[p.curToken.type] ELSE LOWEST

\* func (p *Parser) peekPrecedence() int
peekPrecedence(p) ==
    IF p.peekToken.type \in DOMAIN precedences THEN precedences[p.peekToken.type] ELSE LOWEST

(* The Pratt loop and the prefix and infix parsers are in another file of the  *)
(* parser package; they are modelled from the specification's parse loop.     *)

\* the token kinds with a prefix parser: the operands
prefixParsers == {"IDENT", "STRING"}

\* the token kinds with the binary infix parser: the operators
infixParsers ==
    {"EQUAL", "NOT_EQUAL", "GREATER_THAN", "GREATER_THAN_EQUAL", "LESS_THAN",
     "LESS_THAN_EQUAL", "REGEX_MATCH", "NOT_REGEX_MATCH", "PLUS", "AND", "OR"}

\* an operand, and an infix expression
Operand(m) == [node |-> m.type, idx |-> m.idx]
Infix(m, left, right) == [node |-> "Infix", op |-> m.type, left |-> left, right |-> right]

RECURSIVE parseExpression(_, _)
RECURSIVE parseInfixLoop(_, _, _)
RECURSIVE parseInfixExpression(_, _)

\* left = prefix_parser(cur.kind)(), then the loop
parseExpression(p, precedence) ==
    IF p.curToken.type \notin prefixParsers
    THEN [p |-> p, expr |-> Nil, err |-> UndefinedPrefix(p.curToken)]
    ELSE parseInfixLoop(p, Operand(p.curToken), precedence)

\* while peek is not ";" and precedence < peekPrecedence(): left = infix(left)
parseInfixLoop(p, left, precedence) ==
    IF ~peekTokenIs(p, "SEMICOLON") /\ precedence < peekPrecedence(p)
    THEN IF p.peekToken.type \notin infixParsers
         THEN [p |-> p, expr |-> left, err |-> NoErr]
         ELSE LET r == parseInfixExpression(nextToken(p), left)
              IN  IF r.err # NoErr THEN r ELSE parseInfixLoop(r.p, r.expr, precedence)
    ELSE [p |-> p, expr |-> left, err |-> NoErr]

\* the binary infix parser: cur is the operator; the right operand is parsed with
\* the operator's binding power
parseInfixExpression(p, left) ==
    LET r == parseExpression(nextToken(p), curPrecedence(p))
    IN  IF r.err # NoErr THEN r
        ELSE [p |-> r.p, expr |-> Infix(p.curToken, left, r.expr), err |-> NoErr]

\* a statement parser parses the expression that starts at cur
ParseExpression ==
    /\ pc = "ready"
    /\ LET r == parseExpression(P, LOWEST)
       IN  /\ SetP(r.p)
           /\ ret' = [expr |-> r.expr, err |-> r.err]
    /\ pc' = "done"
    /\ UNCHANGED <<input, built, trailingOut, chunks, head, statements>>

-----------------------------------------------------------------------------
(* Specifications *)

\* the values of the variables a specification does not use
RegIdle ==
    /\ builtinFunctions = InitialFunctions
    /\ before = InitialFunctions
    /\ lastOp = NoOp
    /\ first = InitialFunctions

ParserIdle ==
    /\ input = <<>>
    /\ l = 0
    /\ prevToken = Nil
    /\ curToken = Nil
    /\ peekToken = Nil
    /\ level = 0
    /\ pc = "idle"
    /\ built = {}
    /\ trailingOut = <<>>

VclIdle ==
    /\ chunks = <<>>
    /\ head = Nil
    /\ statements = <<>>
    /\ ret = Nil

\* every sequence over S of at most n elements
SeqsUpTo(S, n) == UNION { [1..k -> S] : k \in 0..n }

\* -- the registry --
InitRegistry == RegIdle /\ ParserIdle /\ VclIdle

NextRegistry ==
    \/ CallExists /\ UNCHANGED <<parserVars, vclVars>>
    \/ CallInject /\ UNCHANGED <<parserVars, vclVars>>

SpecRegistry == InitRegistry /\ [][NextRegistry]_vars

\* -- the token window --
WindowKinds == {"LF", "COMMENT", "LEFT_BRACE", "RIGHT_BRACE", "IDENT"}

InitWindow ==
    /\ RegIdle
    /\ VclIdle
    /\ input \in SeqsUpTo(WindowKinds, MaxLen)
    /\ l = 0
    /\ prevToken = Nil
    /\ curToken = Nil
    /\ peekToken = Nil
    /\ level = 0
    /\ pc = "new"
    /\ built = {}
    /\ trailingOut = <<>>

NextWindow ==
    \/ New /\ UNCHANGED <<regVars, vclVars>>
    \/ Advance /\ UNCHANGED <<regVars, vclVars>>
    \/ Trailing /\ UNCHANGED <<regVars, vclVars>>

SpecWindow == InitWindow /\ [][NextWindow]_vars

\* -- ParseVCL --
\* the declarations the token streams are made of, one of every kind
DeclChunks ==
    { <<"IMPORT", "IDENT", "SEMICOLON">>,
      <<"INCLUDE", "STRING", "SEMICOLON">>,
      <<"ACL", "IDENT", "LEFT_BRACE", "RIGHT_BRACE">>,
      <<"BACKEND", "IDENT", "LEFT_BRACE", "IDENT", "LEFT_BRACE", "RIGHT_BRACE", "RIGHT_BRACE">>,
      <<"DIRECTOR", "IDENT", "LEFT_BRACE", "LEFT_BRACE", "IDENT", "SEMICOLON", "RIGHT_BRACE", "RIGHT_BRACE">>,
      <<"TABLE", "COMMENT", "LF", "IDENT", "LEFT_BRACE", "RIGHT_BRACE">>,
      <<"SUBROUTINE", "IDENT", "LEFT_BRACE", "COMMENT", "LF", "IDENT", "SEMICOLON", "RIGHT_BRACE">>,
      <<"PENALTYBOX", "IDENT", "LEFT_BRACE", "RIGHT_BRACE", "COMMENT">>,
      <<"RATECOUNTER", "IDENT", "LEFT_BRACE", "RIGHT_BRACE", "LF">> }

\* comments and line ends between the declarations
TriviaChunks == { <<"COMMENT", "LF">> }

\* what is no declaration
JunkChunks == { <<"IDENT">>, <<"RIGHT_BRACE">>, <<"ACL", "IDENT">> }

RECURSIVE Flatten(_)
Flatten(cs) == IF cs = <<>> THEN <<>> ELSE Head(cs) \o Flatten(Tail(cs))

InitVCL ==
    /\ RegIdle
    /\ chunks \in SeqsUpTo(DeclChunks \cup TriviaChunks \cup JunkChunks, MaxChunks)
    /\ input = Flatten(chunks)
    /\ l = 0
    /\ prevToken = Nil
    /\ curToken = Nil
    /\ peekToken = Nil
    /\ level = 0
    /\ pc = "new"
    /\ built = {}
    /\ trailingOut = <<>>
    /\ head = Nil
    /\ statements = <<>>
    /\ ret = Nil

NextVCL ==
    \/ New /\ UNCHANGED <<regVars, vclVars>>
    \/ ParseVCLStep /\ UNCHANGED regVars
    \/ ParseVCLReturn /\ UNCHANGED regVars

SpecVCL == InitVCL /\ [][NextVCL]_vars

\* -- expressions --
\* what can follow the expression: the end of the statement, or nothing
ExprEnds == { <<>>, <<"SEMICOLON">>, <<"SEMICOLON", "IDENT">> }

\* a op1 b op2 c
InitExpr ==
    /\ RegIdle
    /\ VclIdle
    /\ \E op1, op2 \in infixParsers, end \in ExprEnds :
          input = <<"IDENT", op1, "IDENT", op2, "IDENT">> \o end
    /\ l = 0
    /\ prevToken = Nil
    /\ curToken = Nil
    /\ peekToken = Nil
    /\ level = 0
    /\ pc = "new"
    /\ built = {}
    /\ trailingOut = <<>>

NextExpr ==
    \/ New /\ UNCHANGED <<regVars, vclVars>>
    \/ ParseExpression /\ UNCHANGED regVars

SpecExpr == InitExpr /\ [][NextExpr]_vars

\* -- ParseSnippetVCL --
\* the statements the snippets are made of
StmtChunks ==
    { <<"SET", "IDENT", "SEMICOLON">>,
      <<"RESTART", "SEMICOLON">>,
      <<"INCLUDE", "STRING", "SEMICOLON">>,
      <<"IDENT">>,
      <<"IDENT", "LEFT_PAREN", "RIGHT_PAREN", "SEMICOLON">>,
      <<"LEFT_BRACE", "COMMENT", "LF", "ESI", "SEMICOLON", "RIGHT_BRACE">>,
      <<"IF", "LEFT_PAREN", "IDENT", "RIGHT_PAREN", "LEFT_BRACE", "RIGHT_BRACE">> }

\* what starts no statement, and a statement that is cut short
StmtJunkChunks ==
    { <<"RIGHT_BRACE">>, <<"ACL">>, <<"LOG", "STRING">>, <<"INCLUDE", "IDENT", "SEMICOLON">> }

InitSnippet ==
    /\ RegIdle
    /\ chunks \in SeqsUpTo(StmtChunks \cup TriviaChunks \cup StmtJunkChunks, MaxChunks)
    /\ input = Flatten(chunks)
    /\ l = 0
    /\ prevToken = Nil
    /\ curToken = Nil
    /\ peekToken = Nil
    /\ level = 0
    /\ pc = "new"
    /\ built = {}
    /\ trailingOut = <<>>
    /\ head = Nil
    /\ statements = <<>>
    /\ ret = Nil

NextSnippet ==
    \/ New /\ UNCHANGED <<regVars, vclVars>>
    \/ CallParseSnippetVCL /\ UNCHANGED regVars
    \/ ParseSnippetStep /\ UNCHANGED regVars
    \/ ParseSnippetReturn /\ UNCHANGED regVars

SpecSnippet == InitSnippet /\ [][NextSnippet]_vars

\* -- ParseVCL and ParseSnippetVCL, run to their end --
TermChunks ==
    { <<"INCLUDE", "STRING", "SEMICOLON">>,
      <<"ACL", "IDENT", "LEFT_BRACE", "RIGHT_BRACE">>,
      <<"SET", "IDENT", "SEMICOLON">>,
      <<"RESTART", "SEMICOLON">>,
      <<"IDENT">>,
      <<"COMMENT", "LF">>,
      <<"RIGHT_BRACE">>,
      <<"ACL">> }

InitTerm ==
    /\ RegIdle
    /\ chunks \in SeqsUpTo(TermChunks, MaxChunks)
    /\ input = Flatten(chunks)
    /\ l = 0
    /\ prevToken = Nil
    /\ curToken = Nil
    /\ peekToken = Nil
    /\ level = 0
    /\ pc = "new"
    /\ built = {}
    /\ trailingOut = <<>>
    /\ head = Nil
    /\ statements = <<>>
    /\ ret = Nil

NextTerm ==
    \/ New /\ UNCHANGED <<regVars, vclVars>>
    \/ ParseVCLStep /\ UNCHANGED regVars
    \/ ParseVCLReturn /\ UNCHANGED regVars
    \/ CallParseSnippetVCL /\ UNCHANGED regVars
    \/ ParseSnippetStep /\ UNCHANGED regVars
    \/ ParseSnippetReturn /\ UNCHANGED regVars

\* the parser runs on its own thread and is never held up: a step that can be
\* taken is taken
SpecTerm == InitTerm /\ [][NextTerm]_vars /\ WF_vars(NextTerm)

-----------------------------------------------------------------------------
(* Properties of the registry *)

\* bit b of the non-negative integer x is set
Bit(x, b) == (x \div (2 ^ b)) % 2 = 1

\* the mask and the scope have a scope in common
Intersects(mask, scope) == \E b \in 0..MaxScope : Bit(mask, b) /\ Bit(scope, b)

\* C1: Inject is atomic: when a key of the entries is already registered, the
\* call fails with AlreadyDefined and the registry is what it was before the call.
C1_InjectAtomic ==
    (lastOp.op = "Inject" /\ DOMAIN lastOp.fns \cap DOMAIN before # {})
        => (lastOp.err = "AlreadyDefined" /\ builtinFunctions = before)

\* C2: registry exclusivity: a registered name keeps the descriptor it was first
\* registered with, no call removes or overwrites a key, and the injection of a
\* single entry whose key is registered fails and leaves the registry as it was.
C2_RegistryExclusive ==
    /\ \A k \in DOMAIN first :
          k \in DOMAIN builtinFunctions /\ builtinFunctions[k] = first[k]
    /\ \A k \in DOMAIN before :
          k \in DOMAIN builtinFunctions /\ builtinFunctions[k] = before[k]
    /\ (lastOp.op = "Inject" /\ Cardinality(DOMAIN lastOp.fns) = 1
            /\ DOMAIN lastOp.fns \subseteq DOMAIN before)
          => (lastOp.err = "AlreadyDefined" /\ builtinFunctions = before)

\* C2's case: "foo" was injected before, and a second injection of "foo" alone,
\* with another descriptor, has been refused
C2_Witness ==
    /\ lastOp.op = "Inject"
    /\ DOMAIN lastOp.fns = {"foo"}
    /\ "foo" \in DOMAIN before
    /\ lastOp.fns["foo"] # before["foo"]
    /\ lastOp.err = "AlreadyDefined"

\* C3: scope gating: Exists succeeds iff the name is registered and its scope mask
\* has a scope in common with the scope asked for; on success it returns the
\* registered descriptor, on failure none.
C3_ScopeGating ==
    lastOp.op = "Exists" =>
        LET ok == lastOp.err = "nil"
        IN  /\ ok <=> (/\ lastOp.name \in DOMAIN builtinFunctions
                       /\ Intersects(builtinFunctions[lastOp.name].Scope, lastOp.scope))
            /\ ok => lastOp.fn = builtinFunctions[lastOp.name]
            /\ ~ok => lastOp.fn = Nil

\* C3's case: a lookup in a scope of two phases finds an injected function that
\* is legal in one of them, and a lookup in the other phase alone is refused
C3_Witness ==
    /\ lastOp.op = "Exists"
    /\ lastOp.name = "foo"
    /\ lastOp.scope = 3
    /\ lastOp.err = "nil"
    /\ lastOp.fn.Scope = 2

\* C4: Exists fails with NotDefined exactly when the name is not registered and
\* with WrongScope exactly when it is registered but its mask misses the scope;
\* whatever the outcome, the registry is left as it was.
C4_ExistsErrors ==
    lastOp.op = "Exists" =>
        /\ lastOp.err \in {"nil", "NotDefined", "WrongScope"}
        /\ lastOp.err = "NotDefined" <=> lastOp.name \notin DOMAIN before
        /\ lastOp.err = "WrongScope" <=>
              (/\ lastOp.name \in DOMAIN before
               /\ ~Intersects(before[lastOp.name].Scope, lastOp.scope))
        /\ builtinFunctions = before

\* C4's case: a registered function asked for in a scope its mask misses
C4_Witness ==
    /\ lastOp.op = "Exists"
    /\ lastOp.name = "foo"
    /\ "foo" \in DOMAIN before
    /\ lastOp.err = "WrongScope"
    /\ lastOp.scope # 0

-----------------------------------------------------------------------------
(* Properties of the token window *)

\* the unmatched braces among the first i tokens of the stream: the "LEFT_BRACE" no later
\* "RIGHT_BRACE" closes, and the "RIGHT_BRACE" no earlier "LEFT_BRACE" opens
RECURSIVE Unmatched(_)
Unmatched(i) ==
    IF i = 0 THEN [open |-> 0, close |-> 0]
    ELSE LET u == Unmatched(i - 1)
             t == IF i <= Len(input) THEN input[i] ELSE "EOF"
         IN  CASE t = "LEFT_BRACE" -> [u EXCEPT !.open = u.open + 1]
               [] t = "RIGHT_BRACE" -> IF u.open > 0 THEN [u EXCEPT !.open = u.open - 1]
                                           ELSE [u EXCEPT !.close = u.close + 1]
               [] OTHER -> u

\* C6: the nesting level recorded in a meta built by the peek refill is the number
\* of unmatched "LEFT_BRACE" at its token (the token included, as the level is updated
\* before the meta is built); where unmatched "RIGHT_BRACE" precede the token, which no node
\* can start after, the level is that number less the number of unmatched "RIGHT_BRACE".
C6_NestingLevel ==
    \A m \in built :
        LET u == Unmatched(m.idx)
        IN  /\ m.level = u.open - u.close
            /\ u.close = 0 => m.level = u.open

\* C6's case: metas of a "LEFT_BRACE" at level 2, of a "RIGHT_BRACE" back at level 1, and of a token
\* inside the block
C6_Witness ==
    /\ \E m \in built : m.type = "LEFT_BRACE" /\ m.level = 2
    /\ \E m \in built : m.type = "RIGHT_BRACE" /\ m.level = 1
    /\ \E m \in built : m.type = "IDENT" /\ m.level = 1 /\ m.idx = 4

\* the places of the stream's comments the lexer has handed out
ConsumedComments == { i \in 1..l : input[i] = "COMMENT" }

\* the number of metas of a token other than EOF that hold comment i as a leading comment
LeadingCount(i) ==
    Cardinality({ m \in built :
        m.type # "EOF" /\ \E j \in 1..Len(m.leading) : m.leading[j].tok = i })

\* the number of trailing comments returned so far that hold the text of comment i
TrailingCount(i) ==
    Cardinality({ kj \in (1..Len(trailingOut)) \X (1..MaxLen + 1) :
        /\ kj[2] <= Len(trailingOut[kj[1]])
        /\ \E n \in 1..Len(trailingOut[kj[1]][kj[2]].value) :
              trailingOut[kj[1]][kj[2]].value[n] = i })

\* comment i waits in the leading comments of the EOF meta
PendingAtEOF(i) ==
    \E m \in built : m.type = "EOF" /\ \E j \in 1..Len(m.leading) : m.leading[j].tok = i

\* C7: every comment the parser has read is attached exactly once, as a leading
\* or as a trailing comment: never twice, and not at all only while it waits on
\* the EOF meta to be flushed as a trailing comment.
C7_CommentOnce ==
    \A i \in ConsumedComments :
        LET n == LeadingCount(i) + TrailingCount(i)
        IN  /\ n <= 1
            /\ n = 0 => PendingAtEOF(i)

\* C8: the parser's level counter and the level recorded in every meta the peek
\* refill has built are never negative.
C8_LevelNonNegative ==
    /\ level >= 0
    /\ \A m \in built : m.level >= 0


-----------------------------------------------------------------------------
(* Properties of the expression parser *)

\* the binary operators of the table, from the weakest to the strongest level:
\* OR, AND, REGEX, EQUALS, LESS_GREATER, CONCAT
Ladder ==
    << {"OR"}, {"AND"}, {"REGEX_MATCH", "NOT_REGEX_MATCH"}, {"EQUAL", "NOT_EQUAL"},
       {"GREATER_THAN", "GREATER_THAN_EQUAL", "LESS_THAN", "LESS_THAN_EQUAL"}, {"PLUS"} >>

Rank(op) == CHOOSE i \in 1..Len(Ladder) : op \in Ladder[i]

\* C5: precedence correctness: for binary operators op1, op2 of the table with
\* prec(op1) < prec(op2), a op1 b op2 c parses as a op1 (b op2 c).
C5_Precedence ==
    (pc = "done" /\ Rank(input[2]) < Rank(input[4])) =>
        /\ ret.err = NoErr
        /\ ret.expr = [node |-> "Infix", op |-> input[2],
                       left |-> [node |-> "IDENT", idx |-> 1],
                       right |-> [node |-> "Infix", op |-> input[4],
                                  left |-> [node |-> "IDENT", idx |-> 3],
                                  right |-> [node |-> "IDENT", idx |-> 5]]]

\* C5's case: a || b && c has been parsed as a || (b && c)
C5_Witness ==
    /\ pc = "done"
    /\ input[2] = "OR"
    /\ input[4] = "AND"
    /\ ret.expr.op = "OR"
    /\ ret.expr.right.op = "AND"

-----------------------------------------------------------------------------
(* Properties of ParseVCL *)

\* the kinds of token a top-level declaration starts with
TopLevelKinds ==
    {"ACL", "IMPORT", "INCLUDE", "BACKEND", "DIRECTOR", "TABLE", "SUBROUTINE",
     "PENALTYBOX", "RATECOUNTER"}

\* C9: at a current token that is neither EOF nor the start of a declaration
\* ParseVCL yields UnexpectedToken of that token; on this and on any other error
\* it returns no AST with the error, and the window is where the error left it:
\* the token is not stepped over and nothing is parsed after it.
C9_ErrorPolicy ==
    /\ (pc = "done" /\ ret.err # NoErr) => ret.vcl = Nil
    /\ (head # Nil /\ head.curToken.type \notin TopLevelKinds) =>
          /\ pc = "done"
          /\ ret = [vcl |-> Nil, err |-> UnexpectedToken(head.curToken)]
          /\ P = head

\* C9's case: two declarations have been parsed, and the token after them starts
\* no declaration
C9_Witness ==
    /\ pc = "done"
    /\ Len(statements) = 2
    /\ head.curToken.type = "RIGHT_BRACE"
    /\ ret.err = UnexpectedToken(curToken)
    /\ ret.vcl = Nil

\* token i of the stream is significant: neither a line end nor a comment
Significant(i) == input[i] \notin {"LF", "COMMENT"}

\* the stream is a sequence of valid declarations, with trivia between them
ValidStream == \A i \in 1..Len(chunks) : chunks[i] \in DeclChunks \cup TriviaChunks

\* the declarations of the stream, in source order
IsDecl(c) == c \in DeclChunks
Declarations == SelectSeq(chunks, IsDecl)

\* C10: on a stream of valid declarations ParseVCL returns an AST and no error;
\* the AST holds one node per declaration, in source order, the nodes cover the
\* significant tokens of the stream, and cur is on EOF.
C10_Totality ==
    (pc = "done" /\ ValidStream) =>
        /\ ret.err = NoErr
        /\ ret.vcl # Nil
        /\ curToken.type = "EOF"
        /\ LET sts == ret.vcl.Statements
           IN  /\ Len(sts) = Len(Declarations)
               /\ \A i \in 1..Len(sts) : sts[i].kind = Head(Declarations[i])
               /\ \A i \in 1..Len(sts) : sts[i].meta.idx <= sts[i].last
               /\ \A i, j \in 1..Len(sts) : i < j => sts[i].last < sts[j].meta.idx
               /\ { k \in 1..Len(input) : Significant(k) }
                    = UNION { { k \in sts[i].meta.idx..sts[i].last : Significant(k) }
                              : i \in 1..Len(sts) }

\* C10's case: a subroutine with a comment in it, a comment line and an import
C10_Witness ==
    /\ pc = "done"
    /\ ValidStream
    /\ Len(chunks) = 3
    /\ chunks[2] \in TriviaChunks
    /\ Len(ret.vcl.Statements) = 2
    /\ ret.vcl.Statements[1].kind = "SUBROUTINE"
    /\ ret.vcl.Statements[2].kind = "IMPORT"

-----------------------------------------------------------------------------
(* Properties of the token window and of the comment trivia *)

\* the places of the significant tokens: those of the stream that are neither a
\* line end nor a comment, and the EOF after the stream
SigIdx == { i \in 1..Len(input) + 1 : i = Len(input) + 1 \/ Significant(i) }

\* the place of the next significant token after place i (EOF follows EOF)
NextSigIdx(i) ==
    IF i > Len(input) THEN Len(input) + 1
    ELSE CHOOSE j \in SigIdx : j > i /\ \A k \in SigIdx : k > i => j <= k

\* the place of the last significant token before place i, 0 when there is none
PrevSigIdx(i) ==
    CHOOSE j \in (SigIdx \cup {0}) : j < i /\ \A k \in (SigIdx \cup {0}) : k < i => k <= j

\* the meta m is the meta of a significant token of the stream
SlotOK(m) ==
    /\ m.idx \in SigIdx
    /\ m.type = (IF m.idx <= Len(input) THEN input[m.idx] ELSE "EOF")
    /\ m.type \notin {"LF", "COMMENT"}

\* prev, cur and peek are consecutive significant tokens; before the first
\* advance there is no prev and cur is the first significant token
WindowInOrder ==
    pc = "ready" =>
        /\ SlotOK(curToken)
        /\ SlotOK(peekToken)
        /\ peekToken.idx = NextSigIdx(curToken.idx)
        /\ IF prevToken = Nil THEN curToken.idx = NextSigIdx(0)
           ELSE SlotOK(prevToken) /\ curToken.idx = NextSigIdx(prevToken.idx)

\* C11: after construction cur and peek are the first two significant tokens;
\* an advance makes prev the old cur, cur the old peek and peek the next
\* significant token; prev, cur, peek are always consecutive significant tokens
\* and no line end or comment is ever in the window.
C11_TokenWindow ==
    /\ []WindowInOrder
    /\ [][Advance => (/\ prevToken' = curToken
                      /\ curToken' = peekToken
                      /\ peekToken'.idx = NextSigIdx(peekToken.idx))]_vars

\* C11's case: two advances over a stream with trivia between its tokens
C11_Witness ==
    /\ pc = "ready"
    /\ prevToken # Nil
    /\ prevToken.idx = 1
    /\ curToken.idx = 3
    /\ peekToken.idx = 5
    /\ input[2] = "COMMENT"
    /\ input[4] = "LF"

\* the places of the comments trailing() has taken from the lexer
TrailingTaken ==
    { i \in 1..Len(input) :
        \E k \in 1..Len(trailingOut) :
            \E j \in 1..Len(trailingOut[k]) : trailingOut[k][j].tok = i }

\* the leading comments of a token are the comments between the significant token
\* before it and itself that the refill has read, in stream order
LeadingInOrder ==
    \A m \in built :
        (m.type # "EOF" \/ m.leading # <<>>) =>
            /\ { m.leading[j].tok : j \in 1..Len(m.leading) }
                  = { i \in (PrevSigIdx(m.idx) + 1)..(m.idx - 1) :
                        input[i] = "COMMENT" /\ i \notin TrailingTaken }
            /\ \A j \in 1..Len(m.leading) : m.leading[j].value = <<m.leading[j].tok>>
            /\ \A i, j \in 1..Len(m.leading) : i < j => m.leading[i].tok < m.leading[j].tok

\* the number of comments that follow on the lexer without a break
CommentRun ==
    CHOOSE n \in 0..Len(input) :
        /\ \A j \in 1..n : l + j <= Len(input) /\ input[l + j] = "COMMENT"
        /\ ~(l + n + 1 <= Len(input) /\ input[l + n + 1] = "COMMENT")

\* what a call of trailing() is to return: the comments that follow on the
\* lexer, and at EOF the leading comments of the peek token as one more comment
TrailingExpected ==
    [j \in 1..CommentRun |-> [tok |-> l + j, value |-> <<l + j>>]]
    \o (IF l + CommentRun + 1 > Len(input) /\ peekToken.leading # <<>>
        THEN << [tok |-> Len(input) + 1,
                 value |-> [j \in 1..Len(peekToken.leading) |-> peekToken.leading[j].tok]] >>
        ELSE <<>>)

\* C12: the leading comments of a token are the comments the refill has read
\* since the significant token before it, across line ends and in order; a
\* call of trailing() returns and consumes the comments that follow on the lexer
\* up to the first line end, nothing else, and at EOF it adds the leading
\* comments of the peek token as a trailing comment.
C12_CommentTrivia ==
    /\ []LeadingInOrder
    /\ [][Trailing => (/\ trailingOut' = Append(trailingOut, TrailingExpected)
                       /\ l' = l + CommentRun
                       /\ UNCHANGED <<prevToken, curToken, peekToken, level>>)]_vars

\* C12's case: trailing() has returned the comment on the line of the peek token
\* and stopped at the line end, which it has left on the lexer
C12_Witness ==
    /\ Len(trailingOut) >= 1
    /\ input = <<"IDENT", "IDENT", "COMMENT", "LF">>
    /\ trailingOut[1] = << [tok |-> 3, value |-> <<3>>] >>
    /\ l = 3
    /\ peekToken.idx = 2

-----------------------------------------------------------------------------
(* Properties of ParseSnippetVCL *)

\* the kinds of token a statement starts with
StatementStartKinds ==
    {"LEFT_BRACE", "SET", "UNSET", "REMOVE", "ADD", "CALL", "DECLARE", "ERROR", "ESI",
     "LOG", "RESTART", "RETURN", "SYNTHETIC", "SYNTHETIC_BASE64", "IF", "GOTO", "INCLUDE",
     "IDENT"}

\* C13: at a current token that starts no statement ParseSnippetVCL yields
\* UnexpectedToken of that current token and returns no statements; an IDENT is
\* parsed as a function call iff peek is "(" and as a goto destination otherwise.
C13_SnippetDispatch ==
    /\ (head # Nil /\ head.curToken.type \notin StatementStartKinds) =>
          /\ pc = "done"
          /\ ret = [statements |-> Nil, err |-> UnexpectedToken(head.curToken)]
    /\ (head # Nil /\ head.curToken.type = "IDENT" /\ pc = "snippet") =>
          /\ statements # <<>>
          /\ statements[Len(statements)].kind =
                IF head.peekToken.type = "LEFT_PAREN" THEN "FunctionCall"
                ELSE "GotoDestination"

\* C14: ParseSnippetVCL does not return success while a significant token of the
\* snippet has neither been parsed into a statement nor been reported.
C14_SnippetComplete ==
    (pc = "done" /\ ret.err = NoErr) =>
        \A k \in 1..Len(input) :
            Significant(k) =>
                \E i \in 1..Len(ret.statements) :
                    ret.statements[i].meta.idx <= k /\ k <= ret.statements[i].last

-----------------------------------------------------------------------------
(* Termination *)

\* C15: ParseVCL and ParseSnippetVCL terminate: an iteration of either loop ends
\* the call with an error or moves cur forward by at least one significant
\* token, so the call returns, and when it returns without an error cur is on EOF.
C15_Terminates ==
    /\ <>(pc = "done")
    /\ [](pc = "done" => (ret.err # NoErr \/ curToken.type = "EOF"))
    /\ [][(pc \in {"ready", "snippet"} /\ pc' = pc) =>
             (SlotOK(curToken') /\ curToken'.idx > curToken.idx)]_vars

\* C15's case: ParseSnippetVCL has gone three times round its loop and returned
C15_Witness ==
    /\ pc = "done"
    /\ ret.err = NoErr
    /\ Len(statements) = 3
    /\ curToken.type = "EOF"
    /\ statements[1].kind = "SET"

====
